---- MODULE Spec2Model ----
(***************************************************************************)
(* A model of QSS, the Quadratic-Separable Solver (src/qss/qss.py) and of  *)
(* its separable proximal-operator framework (src/qss/proximal.py).        *)
(*                                                                         *)
(* Numbers are exact rationals <<n, d>> (d > 0, lowest terms); vectors are *)
(* sequences of rationals.  The penalty rho is a positive integer number   *)
(* of penalty units.  The sparse factorization library (qdldl) is outside  *)
(* the repository: the vector a solve returns is drawn from a small set.   *)
(***************************************************************************)
EXTENDS Integers, Sequences, FiniteSets, TLC

(***************************************************************************)
(* Bounds of the model.                                                    *)
(***************************************************************************)
\* iterations of the main loop the model follows
IterBound == 21
\* largest penalty candidate (in penalty units)
MaxRho == 6
\* largest |u_i| the model follows
UMax == 1
\* length of the vectors handed to the proximal operators and to
\* get_subdifferential
MaxLen == 2

(***************************************************************************)
(* Exact rational arithmetic (numpy float arithmetic, idealised).          *)
(***************************************************************************)
Abs(n) == IF n < 0 THEN -n ELSE n

RECURSIVE GCD(_, _)
GCD(a, b) == IF b = 0 THEN a ELSE GCD(b, a % b)

\* n/d in lowest terms; a zero denominator (a division by zero, inf or nan
\* in numpy) is kept as <<0, 0>>
Rat(n, d) ==
    IF d = 0 THEN <<0, 0>>
    ELSE LET g == GCD(Abs(n), Abs(d))
             s == IF d < 0 THEN -1 ELSE 1
         IN  <<(s * n) \div g, (s * d) \div g>>

Zero == <<0, 1>>
One == <<1, 1>>
FromInt(n) == <<n, 1>>

RAdd(a, b) == Rat(a[1] * b[2] + b[1] * a[2], a[2] * b[2])
RNeg(a) == <<-a[1], a[2]>>
RSub(a, b) == RAdd(a, RNeg(b))
RMul(a, b) == Rat(a[1] * b[1], a[2] * b[2])
RDiv(a, b) == Rat(a[1] * b[2], a[2] * b[1])
RLt(a, b) == a[1] * b[2] < b[1] * a[2]
RLe(a, b) == a[1] * b[2] <= b[1] * a[2]
RMax(a, b) == IF RLt(a, b) THEN b ELSE a
RMin(a, b) == IF RLt(b, a) THEN b ELSE a
RAbs(a) == <<Abs(a[1]), a[2]>>

\* elementwise numpy operations on vectors of the same length
VAdd(a, b) == [i \in DOMAIN a |-> RAdd(a[i], b[i])]
VSub(a, b) == [i \in DOMAIN a |-> RSub(a[i], b[i])]
VMul(a, b) == [i \in DOMAIN a |-> RMul(a[i], b[i])]
VDiv(a, b) == [i \in DOMAIN a |-> RDiv(a[i], b[i])]
VScale(c, a) == [i \in DOMAIN a |-> RMul(c, a[i])]
VShift(a, c) == [i \in DOMAIN a |-> RAdd(a[i], c)]
VNeg(a) == [i \in DOMAIN a |-> RNeg(a[i])]
Zeros(n) == [i \in 1..n |-> Zero]
Ones(n) == [i \in 1..n |-> One]
IsZeroVec(a) == \A i \in DOMAIN a : a[i][1] = 0

RECURSIVE NormInfFrom(_, _)
NormInfFrom(a, i) ==
    IF i > Len(a) THEN Zero ELSE RMax(RAbs(a[i]), NormInfFrom(a, i + 1))

\* np.linalg.norm(a, ord=np.inf)
NormInf(a) == NormInfFrom(a, 1)

Min(a, b) == IF a < b THEN a ELSE b

\* a[start:end] of a numpy array, 0 <= start: the end is clamped to the length
Slice(a, start, end) == SubSeq(a, start + 1, Min(end, Len(a)))

\* a[start:end] = vals, vals as long as the slice
SetSlice(a, start, vals) ==
    [i \in DOMAIN a |->
        IF i > start /\ i <= start + Len(vals) THEN vals[i - start] ELSE a[i]]

\* the vectors of length n over the set S
Vectors(S, n) == [1..n -> S]

(***************************************************************************)
(* proximal.py: the proximal operators.                                    *)
(***************************************************************************)
prox_zero(rho, v) == v

\* rho is the vector new_rho of apply_prox_ops
prox_abs(rho, v) ==
    [i \in DOMAIN v |->
        RSub(RMax(RSub(v[i], RDiv(One, rho[i])), Zero),
             RMax(RSub(RNeg(v[i]), RDiv(One, rho[i])), Zero))]

prox_indge0(rho, v) ==
    [i \in DOMAIN v |-> IF RLt(v[i], Zero) THEN Zero ELSE v[i]]

\* v[v >= 1] = 1
MaskGe1(v) == [i \in DOMAIN v |-> IF RLe(One, v[i]) THEN One ELSE v[i]]

\* v[v <= 0] = 0
MaskLe0(v) == [i \in DOMAIN v |-> IF RLe(v[i], Zero) THEN Zero ELSE v[i]]

prox_indbox01_upper_only(rho, v) == MaskGe1(v)

prox_indbox01(rho, v) == MaskLe0(MaskGe1(v))

prox_is_zero(rho, v) == Zeros(Len(v))

\* prox_ops[name](rho, v)
prox_ops(name, rho, v) ==
    CASE name = "zero" -> prox_zero(rho, v)
      [] name = "abs" -> prox_abs(rho, v)
      [] name = "indge0" -> prox_indge0(rho, v)
      [] name = "indbox01" -> prox_indbox01(rho, v)
      [] name = "is_zero" -> prox_is_zero(rho, v)

\* prox_indge0 and prox_indbox01 write into their argument and return it; the
\* other operators leave the argument as it was
prox_buffer(name, rho, v) ==
    IF name \in {"indge0", "indbox01"} THEN prox_ops(name, rho, v) ELSE v

\* a term of g_list, its args read with their defaults (weight 1, scale 1,
\* shift 0)
Term(name, start, end, weight, scale, shift) ==
    [g |-> name, range |-> <<start, end>>, weight |-> weight,
     scale |-> scale, shift |-> shift]

DefaultTerm(name, start, end) == Term(name, start, end, One, One, Zero)

\* one pass of the loop of apply_prox_ops, for the term g
apply_one_prox(rho, equil_scaling, g, x) ==
    LET start_index == g.range[1]
        end_index == g.range[2]
        new_scale == VScale(g.scale, Slice(equil_scaling, start_index, end_index))
        new_rho == [i \in DOMAIN new_scale |->
                       RDiv(rho, RMul(g.weight, RMul(new_scale[i], new_scale[i])))]
        arg == VShift(VMul(new_scale, Slice(x, start_index, end_index)),
                      RNeg(g.shift))
    IN  SetSlice(x, start_index,
                 VDiv(VShift(prox_ops(g.g, new_rho, arg), g.shift), new_scale))

RECURSIVE apply_prox_from(_, _, _, _, _)
apply_prox_from(rho, equil_scaling, g_list, k, x) ==
    IF k > Len(g_list) THEN x
    ELSE apply_prox_from(rho, equil_scaling, g_list, k + 1,
                         apply_one_prox(rho, equil_scaling, g_list[k], x))

apply_prox_ops(rho, equil_scaling, g_list, x) ==
    apply_prox_from(rho, equil_scaling, g_list, 1, x)


\* the loop "for i in range(start_index, end_index)" of get_subdifferential,
\* from i on (i counts from 0)
RECURSIVE subdiff_range(_, _, _, _, _)
subdiff_range(i, end_index, output, x, target) ==
    IF i >= end_index THEN output
    ELSE LET xi == x[i + 1]
             ti == target[i + 1]
             val == IF xi = Zero
                    THEN IF RLt(One, ti) THEN RNeg(One)
                         ELSE IF RLt(ti, RNeg(One)) THEN One
                         ELSE RNeg(ti)
                    ELSE IF RLt(Zero, xi) THEN One
                    ELSE IF RLt(xi, Zero) THEN RNeg(One)
                    ELSE output[i + 1]
         IN  subdiff_range(i + 1, end_index,
                           [output EXCEPT ![i + 1] = val], x, target)

RECURSIVE subdiff_from(_, _, _, _, _)
subdiff_from(g_list, k, output, x, target) ==
    IF k > Len(g_list) THEN output
    ELSE LET g == g_list[k]
         IN  subdiff_from(g_list, k + 1,
                 IF g.g = "abs"
                 THEN subdiff_range(g.range[1], g.range[2], output, x, target)
                 ELSE output,
                 x, target)

get_subdifferential_unclipped(g_list, x, target) ==
    LET out == subdiff_from(g_list, 1, Zeros(Len(x)), x, target)
        inAbs(i) == \E k \in DOMAIN g_list :
                        /\ g_list[k].g = "abs"
                        /\ g_list[k].range[1] < i
                        /\ i <= g_list[k].range[2]
    IN  [i \in DOMAIN x |->
            IF inAbs(i) /\ x[i] = Zero THEN RNeg(target[i]) ELSE out[i]]

get_subdifferential(g_list, x, target) ==
    subdiff_from(g_list, 1, Zeros(Len(x)), x, target)

(***************************************************************************)
(* The state.  data and self are the solver object's fields; the others    *)
(* are the locals of QSS.solve, pc its position.  v0, v, rho_in, y, op are *)
(* a call of one proximal operator (v0 the argument as passed, v the       *)
(* caller's buffer after the call, y the vector returned); sd_* are a call *)
(* of get_subdifferential.                                                 *)
(***************************************************************************)
VARIABLES data, self, pc, raised, P, q, rho, dim, constr_dim, has_constr,
          xk, zk, uk, xk1, zk1, uk1, nuk1, equil_scaling, obj_scale,
          quad_kkt, quad_kkt_reg, F, iter_num, rhs, r_prim, r_dual,
          converged, new_rho_candidate, polished, result,
          v0, v, rho_in, y, op,
          sd_g, sd_x, sd_target, sd_out, sd_pc

solveVars == <<data, self, pc, raised, P, q, rho, dim, constr_dim, has_constr,
               xk, zk, uk, xk1, zk1, uk1, nuk1, equil_scaling, obj_scale,
               quad_kkt, quad_kkt_reg, F, iter_num, rhs, r_prim, r_dual,
               converged, new_rho_candidate, polished, result>>
proxVars == <<v0, v, rho_in, y, op>>
subVars == <<sd_g, sd_x, sd_target, sd_out, sd_pc>>
vars == <<solveVars, proxVars, subVars>>


(***************************************************************************)
(* The problems and options the model constructs solvers from.  P is       *)
(* p times the n x n identity; of A only its shape and whether it stores   *)
(* any nonzero are kept.                                                   *)
(***************************************************************************)
\* max_iter = np.inf, the default: no iteration count equals it
NoCap == -1
\* the stopping test and the penalty update run when iter_num % 10 == 0
CheckEvery == 10
\* the hysteresis factor of the penalty update
RhoRatio == 5

Matrix(n, p) == [n |-> n, diag |-> p]
Shape(rows, cols, nnz) == [rows |-> rows, cols |-> cols, nnz |-> nnz]
Problem(n, p, qv, a, bv, g_list) ==
    [P |-> Matrix(n, p), q |-> qv, A |-> a, b |-> bv, g |-> g_list]

\* a nonnegative QP: P = 1, q = [-1], no constraints
NonnegQP ==
    Problem(1, 1, <<RNeg(One)>>, Shape(0, 1, 0), <<>>,
            <<DefaultTerm("indge0", 0, 1)>>)

Problems ==
    { NonnegQP,
      \* one equality constraint, an abs term on the second coordinate
      Problem(2, 1, <<RNeg(One), Zero>>, Shape(1, 2, 2), <<One>>,
              <<DefaultTerm("abs", 1, 2)>>),
      \* an LP (P = 0) with a sign-flipped variable, as in test_lp_big
      Problem(1, 0, <<One>>, Shape(1, 1, 1), <<One>>,
              <<Term("indge0", 0, 1, One, RNeg(One), Zero)>>),
      \* A has one row and stores no nonzero
      Problem(1, 1, <<RNeg(One)>>, Shape(1, 1, 0), <<One>>,
              <<DefaultTerm("indbox01", 0, 1)>>),
      \* inconsistent: q has three entries, P is 2 x 2
      Problem(2, 1, <<RNeg(One), RNeg(One), RNeg(One)>>, Shape(0, 2, 0), <<>>,
              <<DefaultTerm("indge0", 0, 2)>>),
      \* inconsistent: A has three columns, P is 2 x 2
      Problem(2, 1, <<RNeg(One), Zero>>, Shape(1, 3, 1), <<One>>,
              <<DefaultTerm("zero", 0, 2)>>),
      \* inconsistent: the term's range ends beyond the only coordinate
      Problem(1, 1, <<RNeg(One)>>, Shape(0, 1, 0), <<>>,
              <<DefaultTerm("is_zero", 0, 2)>>) }

Option(max_iter, polish, precond, refine, rho0) ==
    [alpha |-> One, rho |-> rho0, max_iter |-> max_iter, precond |-> precond,
     use_iter_refinement |-> refine, polish |-> polish]

\* the default options (rho in penalty units)
Defaults == Option(NoCap, FALSE, TRUE, TRUE, 1)

Options ==
    { Defaults,
      Option(0, TRUE, FALSE, TRUE, MaxRho),
      Option(7, TRUE, FALSE, FALSE, MaxRho),
      Option(10, FALSE, FALSE, TRUE, MaxRho),
      Option(20, TRUE, FALSE, TRUE, 1) }

\* whether the dimensions of P, q, A, b and the term ranges agree
Consistent(d) ==
    /\ Len(d.q) = d.P.n
    /\ d.A.cols = d.P.n
    /\ Len(d.b) = d.A.rows
    /\ \A k \in DOMAIN d.g : d.g[k].range[1] <= d.g[k].range[2]
                             /\ d.g[k].range[2] <= d.P.n

\* the values an entry of a solve's result is drawn from
SolveVals == {RNeg(One), Zero, One}

\* the diagonal scaling and the objective scale ruiz may return
EquilVals == {2}
ObjScaleVals == {2}

NoMatrix == [n |-> 0, diag |-> 0, A |-> Shape(0, 0, 0), reg |-> "unbuilt"]

SolveIdle ==
    /\ pc = "start" /\ raised = "" /\ P = Matrix(0, 0) /\ q = <<>>
    /\ rho = 0 /\ dim = 0 /\ constr_dim = 0 /\ has_constr = FALSE
    /\ xk = <<>> /\ zk = <<>> /\ uk = <<>>
    /\ xk1 = <<>> /\ zk1 = <<>> /\ uk1 = <<>> /\ nuk1 = <<>>
    /\ equil_scaling = <<>> /\ obj_scale = Zero
    /\ quad_kkt = NoMatrix /\ quad_kkt_reg = NoMatrix /\ F = NoMatrix
    /\ iter_num = 0 /\ rhs = <<>> /\ r_prim = Zero /\ r_dual = Zero
    /\ converged = FALSE /\ new_rho_candidate = 0
    /\ polished = FALSE /\ result = <<>>

ProxIdle == v0 = <<>> /\ v = <<>> /\ rho_in = 0 /\ y = <<>> /\ op = "none"

SubIdle ==
    /\ sd_g = <<>> /\ sd_x = <<>> /\ sd_target = <<>> /\ sd_out = <<>>
    /\ sd_pc = "idle"

\* QSS.__init__: the solver object, solve() not yet called
Init ==
    /\ data \in Problems
    /\ self \in Options
    /\ SolveIdle /\ ProxIdle /\ SubIdle


(***************************************************************************)
(* QSS.solve, lines 40-95: the locals, preconditioning, the KKT matrices.  *)
(***************************************************************************)
\* has_constr = True if A.nnz != 0 else False
HasConstr(a) == a.nnz # 0

\* constr_dim = A.shape[0], and 0 if not has_constr
ConstrDim(a) == IF HasConstr(a) THEN a.rows ELSE 0

Start ==
    /\ pc = "start"
    /\ P' = data.P
    /\ q' = data.q
    /\ rho' = self.rho
    /\ dim' = data.P.n
    /\ has_constr' = HasConstr(data.A)
    /\ constr_dim' = ConstrDim(data.A)
    /\ xk' = Zeros(data.P.n) /\ zk' = Zeros(data.P.n) /\ uk' = Zeros(data.P.n)
    /\ xk1' = Zeros(data.P.n) /\ zk1' = Zeros(data.P.n)
    /\ uk1' = Zeros(data.P.n) /\ nuk1' = Zeros(data.P.n)
    /\ equil_scaling' = Ones(data.P.n)
    /\ obj_scale' = One
    /\ pc' = "precond"
    /\ UNCHANGED <<data, self, raised, quad_kkt, quad_kkt_reg, F, iter_num,
                   rhs, r_prim, r_dual, converged, new_rho_candidate,
                   polished, result>>
    /\ UNCHANGED <<proxVars, subVars>>

\* whether precondition.ruiz can scale P, q, A, b together
RuizInputsAgree == Len(q) = P.n /\ data.A.cols = P.n /\ Len(data.b) = data.A.rows

\* precondition.ruiz(P, q, r, A, b): with the diagonal scaling d and the
\* objective scale c, P becomes c d P d and q becomes c d q
ruiz(Pm, qv) ==
    { [P |-> Matrix(Pm.n, c * d * d * Pm.diag),
       q |-> VScale(FromInt(c * d), qv),
       equil_scaling |-> [i \in 1..Pm.n |-> FromInt(d)],
       obj_scale |-> FromInt(c)] : d \in EquilVals, c \in ObjScaleVals }

Precondition ==
    /\ pc = "precond"
    /\ IF self.precond
       THEN /\ RuizInputsAgree
            /\ \E s \in ruiz(P, q) :
                  /\ P' = s.P
                  /\ q' = s.q
                  /\ equil_scaling' = s.equil_scaling
                  /\ obj_scale' = s.obj_scale
       ELSE UNCHANGED <<P, q, equil_scaling, obj_scale>>
    /\ pc' = "kkt"
    /\ UNCHANGED <<data, self, raised, rho, dim, constr_dim, has_constr,
                   xk, zk, uk, xk1, zk1, uk1, nuk1, quad_kkt, quad_kkt_reg,
                   F, iter_num, rhs, r_prim, r_dual, converged,
                   new_rho_candidate, polished, result>>
    /\ UNCHANGED <<proxVars, subVars>>

PreconditionRaises ==
    /\ pc = "precond"
    /\ self.precond
    /\ ~RuizInputsAgree
    /\ pc' = "error"
    /\ raised' = "ruiz"
    /\ UNCHANGED <<data, self, P, q, rho, dim, constr_dim, has_constr,
                   xk, zk, uk, xk1, zk1, uk1, nuk1, equil_scaling, obj_scale,
                   quad_kkt, quad_kkt_reg, F, iter_num, rhs, r_prim, r_dual,
                   converged, new_rho_candidate, polished, result>>
    /\ UNCHANGED <<proxVars, subVars>>

\* matrix.build_kkt(P, A, reg, rho, dim, constr_dim): [P + rho I, A'; A, reg I]
build_kkt(Pm, a, reg, r, n, m) ==
    [n |-> n + m, diag |-> Pm.diag + r, A |-> a, reg |-> reg]

\* P + rho * sp.sparse.identity(dim)
reduced_kkt(Pm, r, n) ==
    [n |-> n, diag |-> Pm.diag + r, A |-> Shape(0, 0, 0), reg |-> "none"]

\* qdldl.Solver(M): the handle holds the matrix it factorized
Factorize(M) == M

BuildKKT ==
    /\ pc = "kkt"
    /\ IF has_constr
       THEN IF data.A.cols = dim
            THEN /\ quad_kkt' = build_kkt(P, data.A, "zero", rho, dim, constr_dim)
                 /\ quad_kkt_reg' =
                        build_kkt(P, data.A, "neg", rho, dim, constr_dim)
                 /\ F' = Factorize(quad_kkt_reg')
                 /\ pc' = "loop"
                 /\ raised' = raised
            ELSE /\ pc' = "error"
                 /\ raised' = "build_kkt"
                 /\ UNCHANGED <<quad_kkt, quad_kkt_reg, F>>
       ELSE /\ quad_kkt' = reduced_kkt(P, rho, dim)
            /\ F' = Factorize(quad_kkt')
            /\ pc' = "loop"
            /\ UNCHANGED <<quad_kkt_reg, raised>>
    /\ UNCHANGED <<data, self, P, q, rho, dim, constr_dim, has_constr,
                   xk, zk, uk, xk1, zk1, uk1, nuk1, equil_scaling, obj_scale,
                   iter_num, rhs, r_prim, r_dual, converged,
                   new_rho_candidate, polished, result>>
    /\ UNCHANGED <<proxVars, subVars>>


(***************************************************************************)
(* QSS.solve, lines 102-221: the main loop.                                *)
(***************************************************************************)
\* numpy broadcasting of two vectors: equal lengths, or one of length 1
BroadcastOK(a, b) == Len(a) = Len(b) \/ Len(a) = 1 \/ Len(b) = 1

Stretch(a, n) == IF Len(a) = n THEN a ELSE [i \in 1..n |-> a[1]]

NpAdd(a, b) ==
    LET n == IF Len(a) < Len(b) THEN Len(b) ELSE Len(a)
    IN  VAdd(Stretch(a, n), Stretch(b, n))

\* -q + rho * (zk - uk)
x_rhs_top == NpAdd(VNeg(q), VScale(FromInt(rho), VSub(zk, uk)))

x_rhs_without_b(top, b) == top

\* np.concatenate([-q + rho * (zk - uk), b]) with constraints, else the top
x_rhs(top, b) == IF has_constr THEN top \o b ELSE top

\* what a solve of the system of rhs r may return: the entries of x are drawn
\* from SolveVals; the multipliers, which solve() never reads, are zero
Solutions(r) ==
    IF Len(r) <= dim THEN Vectors(SolveVals, Len(r))
    ELSE {x \o Zeros(Len(r) - dim) : x \in Vectors(SolveVals, dim)}

\* matrix.ir_solve(quad_kkt, F, rhs)
ir_solve(M, Fh, r) == Solutions(r)

\* F.solve(rhs) of qdldl
factor_solve(Fh, r) == Solutions(r)

\* lines 108-120: the solve of the x update
x_solve(r) ==
    IF has_constr /\ self.use_iter_refinement
    THEN ir_solve(quad_kkt, F, r)
    ELSE factor_solve(F, r)

\* lines 113-133 for the solution sol: xk1, nuk1, zk1, uk1 and the residuals
iteration(sol) ==
    LET x1 == IF has_constr THEN SubSeq(sol, 1, dim) ELSE sol
        relaxed == VAdd(VScale(self.alpha, x1),
                        VScale(RSub(One, self.alpha), zk))
        z1 == apply_prox_ops(RDiv(FromInt(rho), obj_scale), equil_scaling,
                             data.g, VAdd(relaxed, uk))
    IN  [xk1 |-> x1,
         nuk1 |-> IF has_constr THEN SubSeq(sol, dim + 1, Len(sol)) ELSE nuk1,
         zk1 |-> z1,
         uk1 |-> VSub(VAdd(uk, relaxed), z1),
         r_prim |-> NormInf(VSub(x1, z1)),
         r_dual |-> NormInf(VScale(FromInt(rho), VSub(zk, z1)))]

\* the runs the model follows: no |u_i| beyond UMax, unless it does not grow
UWithin(u_new, u_old) ==
    \A i \in DOMAIN u_new :
        \/ RLe(RAbs(u_new[i]), FromInt(UMax))
        \/ RLe(RAbs(u_new[i]), RAbs(u_old[i]))

\* whether the x update of this iteration raises: q does not broadcast
\* against zk - uk, or the right-hand side is not as long as the system
XUpdateRaises ==
    \/ ~BroadcastOK(q, zk)
    \/ Len(x_rhs(x_rhs_top, data.b)) # F.n

\* lines 105-120, an x update that raises
IterateRaises ==
    /\ pc = "loop"
    /\ iter_num < IterBound
    /\ XUpdateRaises
    /\ iter_num' = iter_num + 1
    /\ rhs' = IF BroadcastOK(q, zk) THEN x_rhs(x_rhs_top, data.b) ELSE rhs
    /\ pc' = "error"
    /\ raised' = "x_update"
    /\ UNCHANGED <<data, self, P, q, rho, dim, constr_dim, has_constr,
                   xk, zk, uk, xk1, zk1, uk1, nuk1, equil_scaling, obj_scale,
                   quad_kkt, quad_kkt_reg, F, r_prim, r_dual, converged,
                   new_rho_candidate, polished, result>>
    /\ UNCHANGED <<proxVars, subVars>>

every_iteration(n) == TRUE

\* lines 150 and 178: iter_num % 10 == 0
is_check_iteration(n) == n % CheckEvery = 0

\* util.evaluate_stop_crit(...) in iteration n, called only when
\* n != max_iter and n % 10 == 0: what it may return
evaluate_stop_crit(n) ==
    IF n # self.max_iter /\ is_check_iteration(n) THEN BOOLEAN ELSE {FALSE}

\* line 149: iter_num == max_iter or (iter_num % 10 == 0 and stop crit)
should_stop(n, crit) ==
    n = self.max_iter \/ (is_check_iteration(n) /\ crit)

polish_always == TRUE

\* line 167: if self._polish
polish_enabled == self.polish

\* polish.polish(g, zk1, ...): the refined z, or zk1 itself
polish(z) == {z}

\* lines 105-133 of an iteration whose x update returns sol, it = iteration(sol)
Updates(sol, it) ==
    /\ UWithin(it.uk1, uk)
    /\ iter_num' = iter_num + 1
    /\ rhs' = x_rhs(x_rhs_top, data.b)
    /\ xk1' = it.xk1
    /\ nuk1' = it.nuk1
    /\ uk1' = it.uk1
    /\ r_prim' = it.r_prim
    /\ r_dual' = it.r_dual

\* the loop is at its head and the x update of the next iteration returns
CanIterate ==
    /\ pc = "loop"
    /\ iter_num < IterBound
    /\ ~XUpdateRaises

\* lines 105-175: an iteration in which the loop ends and solve returns
IterateStop ==
    /\ CanIterate
    /\ \E crit \in evaluate_stop_crit(iter_num + 1) :
          /\ should_stop(iter_num + 1, crit)
          /\ converged' = crit
    /\ \E sol \in x_solve(x_rhs(x_rhs_top, data.b)) :
       \E it \in {iteration(sol)} :
          /\ Updates(sol, it)
          /\ IF polish_enabled
             THEN /\ zk1' \in polish(it.zk1)
                  /\ polished' = TRUE
             ELSE /\ zk1' = it.zk1
                  /\ UNCHANGED polished
    /\ result' = VMul(equil_scaling, zk1')
    /\ pc' = "done"
    /\ UNCHANGED <<data, self, raised, P, q, rho, dim, constr_dim,
                   has_constr, xk, zk, uk, equil_scaling, obj_scale,
                   quad_kkt, quad_kkt_reg, F, new_rho_candidate>>
    /\ UNCHANGED <<proxVars, subVars>>

\* lines 105-221: an iteration that neither stops nor is a 10th one
Iterate ==
    /\ CanIterate
    /\ \E crit \in evaluate_stop_crit(iter_num + 1) :
          ~should_stop(iter_num + 1, crit)
    /\ ~is_check_iteration(iter_num + 1)
    /\ \E sol \in x_solve(x_rhs(x_rhs_top, data.b)) :
       \E it \in {iteration(sol)} :
          /\ Updates(sol, it)
          /\ zk1' = it.zk1
    /\ xk' = xk1' /\ zk' = zk1' /\ uk' = uk1'
    /\ pc' = "loop"
    /\ UNCHANGED <<data, self, raised, P, q, rho, dim, constr_dim,
                   has_constr, equil_scaling, obj_scale, quad_kkt,
                   quad_kkt_reg, F, converged, new_rho_candidate, polished,
                   result>>
    /\ UNCHANGED <<proxVars, subVars>>

\* lines 180-191: rho * sqrt(r_prim / (r_dual + 1e-30) * norm(rho * uk1)
\* / (max(norm(xk1), norm(zk1)) + 1e-30)).  The square root is not computed:
\* the value is zero exactly when r_prim or rho * uk1 is, and positive else
rho_candidates(r, rp, rd, u1, x1, z1) ==
    IF rp = Zero \/ IsZeroVec(VScale(FromInt(r), u1)) THEN {0} ELSE 1..MaxRho

keep_zero_candidate(c, r) == c

\* lines 194-195: if new_rho_candidate == 0: new_rho_candidate = rho
discard_zero(c, r) == IF c = 0 THEN r ELSE c

\* lines 105-195: a 10th iteration that does not stop computes the candidate
IterateCandidate ==
    /\ CanIterate
    /\ \E crit \in evaluate_stop_crit(iter_num + 1) :
          ~should_stop(iter_num + 1, crit)
    /\ is_check_iteration(iter_num + 1)
    /\ \E sol \in x_solve(x_rhs(x_rhs_top, data.b)) :
       \E it \in {iteration(sol)} :
          /\ Updates(sol, it)
          /\ zk1' = it.zk1
          /\ \E c \in rho_candidates(rho, it.r_prim, it.r_dual, it.uk1,
                                     it.xk1, it.zk1) :
                new_rho_candidate' = discard_zero(c, rho)
    /\ pc' = "hyst"
    /\ UNCHANGED <<data, self, raised, P, q, rho, dim, constr_dim,
                   has_constr, xk, zk, uk, equil_scaling, obj_scale,
                   quad_kkt, quad_kkt_reg, F, converged, polished, result>>
    /\ UNCHANGED <<proxVars, subVars>>

update_if_different(c, r) == c # r

\* line 198: new_rho_candidate / rho > 5 or rho / new_rho_candidate > 5
should_update(c, r) == c > RhoRatio * r \/ r > RhoRatio * c

\* line 199: uk1 * rho / new_rho_candidate
rescale_u(u, r, c) ==
    [i \in DOMAIN u |-> RDiv(RMul(u[i], FromInt(r)), FromInt(c))]

shift_diag_add_only(M, r, c) == [M EXCEPT !.diag = M.diag + c]

\* lines 202-210: M - rho_vec + new_rho_vec, the diagonal of the top-left
\* block moved from rho to the candidate
shift_diag(M, r, c) == [M EXCEPT !.diag = M.diag - r + c]

\* F.update(M) of qdldl: the handle holds the matrix it refactorized
factor_update(Fh, M) == M

\* lines 198-221: the update is applied, then xk, zk, uk = xk1, zk1, uk1
ApplyRhoUpdate ==
    /\ pc = "hyst"
    /\ should_update(new_rho_candidate, rho)
    /\ uk1' = rescale_u(uk1, rho, new_rho_candidate)
    /\ quad_kkt' = shift_diag(quad_kkt, rho, new_rho_candidate)
    /\ IF has_constr
       THEN /\ quad_kkt_reg' = shift_diag(quad_kkt_reg, rho, new_rho_candidate)
            /\ F' = factor_update(F, quad_kkt_reg')
       ELSE /\ F' = factor_update(F, quad_kkt')
            /\ UNCHANGED quad_kkt_reg
    /\ rho' = new_rho_candidate
    /\ xk' = xk1 /\ zk' = zk1 /\ uk' = uk1'
    /\ pc' = "loop"
    /\ UNCHANGED <<data, self, raised, P, q, dim, constr_dim, has_constr,
                   xk1, zk1, nuk1, equil_scaling, obj_scale, iter_num, rhs,
                   r_prim, r_dual, converged, new_rho_candidate, polished,
                   result>>
    /\ UNCHANGED <<proxVars, subVars>>

\* lines 198, 219-221: the candidate is too close to rho, nothing is updated
SkipRhoUpdate ==
    /\ pc = "hyst"
    /\ ~should_update(new_rho_candidate, rho)
    /\ xk' = xk1 /\ zk' = zk1 /\ uk' = uk1
    /\ pc' = "loop"
    /\ UNCHANGED <<data, self, raised, P, q, rho, dim, constr_dim,
                   has_constr, xk1, zk1, uk1, nuk1, equil_scaling, obj_scale,
                   quad_kkt, quad_kkt_reg, F, iter_num, rhs, r_prim, r_dual,
                   converged, new_rho_candidate, polished, result>>
    /\ UNCHANGED <<proxVars, subVars>>

Next ==
    \/ Start
    \/ Precondition
    \/ PreconditionRaises
    \/ BuildKKT
    \/ IterateRaises
    \/ Iterate
    \/ IterateStop
    \/ IterateCandidate
    \/ ApplyRhoUpdate
    \/ SkipRhoUpdate

Spec == Init /\ [][Next]_vars


(***************************************************************************)
(* A call of one proximal operator on a vector of the caller.              *)
(***************************************************************************)
ProxNames == {"zero", "abs", "indge0", "indbox01", "is_zero"}

\* the entries of the vectors handed to the operators
ProxInputs ==
    {Rat(-2, 1), Rat(-1, 1), Rat(-1, 2), Zero, Rat(1, 2), One, Rat(3, 2)}

ProxRhos == {1, 2}

InitProx ==
    /\ data = NonnegQP /\ self = Defaults
    /\ SolveIdle /\ SubIdle
    /\ \E n \in 0..MaxLen : v0 \in Vectors(ProxInputs, n)
    /\ v = v0
    /\ rho_in \in ProxRhos
    /\ y = <<>>
    /\ op = "none"

CallProx(name) ==
    /\ op = "none"
    /\ op' = name
    /\ y' = prox_ops(name, [i \in DOMAIN v |-> FromInt(rho_in)], v)
    /\ v' = prox_buffer(name, [i \in DOMAIN v |-> FromInt(rho_in)], v)
    /\ UNCHANGED <<v0, rho_in>>
    /\ UNCHANGED <<solveVars, subVars>>

NextProx == \E name \in ProxNames : CallProx(name)

SpecProx == InitProx /\ [][NextProx]_vars

(***************************************************************************)
(* A call of get_subdifferential.                                          *)
(***************************************************************************)
\* term lists whose ranges lie within the MaxLen coordinates
SubTermLists ==
    { <<DefaultTerm("abs", 0, MaxLen)>>,
      <<DefaultTerm("abs", 1, MaxLen)>>,
      <<DefaultTerm("indge0", 0, 1), DefaultTerm("abs", 1, MaxLen)>>,
      <<DefaultTerm("abs", 0, 1), DefaultTerm("indbox01", 0, MaxLen)>>,
      <<DefaultTerm("zero", 0, MaxLen)>>,
      <<>> }

SubXVals == {RNeg(One), Zero, Rat(1, 2)}

SubTargets == {Rat(-2, 1), Rat(-1, 2), Zero, One, Rat(3, 2)}

InitSub ==
    /\ data = NonnegQP /\ self = Defaults
    /\ SolveIdle /\ ProxIdle
    /\ sd_g \in SubTermLists
    /\ sd_x \in Vectors(SubXVals, MaxLen)
    /\ sd_target \in Vectors(SubTargets, MaxLen)
    /\ sd_out = <<>>
    /\ sd_pc = "idle"

CallSubdifferential ==
    /\ sd_pc = "idle"
    /\ sd_out' = get_subdifferential(sd_g, sd_x, sd_target)
    /\ sd_pc' = "done"
    /\ UNCHANGED <<sd_g, sd_x, sd_target>>
    /\ UNCHANGED <<solveVars, proxVars>>

NextSub == CallSubdifferential

SpecSub == InitSub /\ [][NextSub]_vars


(***************************************************************************)
(* The claims.                                                             *)
(***************************************************************************)
Running == pc \in {"loop", "hyst", "done"}

\* C1: with a finite cap max_iter, no iteration with a count greater than
\* max_iter is ever executed.
C1_NoIterationBeyondCap ==
    self.max_iter # NoCap => iter_num <= self.max_iter

\* C2, as claimed: in an iteration whose candidate rho' has rho'/rho <= 5, the
\* adaptive-penalty step leaves quad_kkt, quad_kkt_reg, F, rho and u as they
\* were.
C2_NoUpdateUpToFive ==
    [][(pc = "hyst" /\ new_rho_candidate <= RhoRatio * rho)
        => (UNCHANGED <<quad_kkt, quad_kkt_reg, F, rho, uk1>> /\ uk' = uk1)]_vars

\* C2, amended: in an iteration whose candidate rho' has both rho'/rho <= 5
\* and rho/rho' <= 5, the adaptive-penalty step leaves quad_kkt,
\* quad_kkt_reg, F, rho and u as they were.
C2_NoUpdateWithinBand ==
    [][(pc = "hyst" /\ new_rho_candidate <= RhoRatio * rho
                    /\ rho <= RhoRatio * new_rho_candidate)
        => (UNCHANGED <<quad_kkt, quad_kkt_reg, F, rho, uk1>> /\ uk' = uk1)]_vars

\* a 10th iteration has ended with a candidate other than rho that was not
\* applied
C2_Witness ==
    /\ pc = "loop"
    /\ iter_num = CheckEvery
    /\ new_rho_candidate # rho
    /\ new_rho_candidate <= RhoRatio * rho
    /\ rho <= RhoRatio * new_rho_candidate
    /\ rho = self.rho
    /\ F.diag = P.diag + self.rho

\* C3: the proximal operator of indicator-box01 returns every coordinate of
\* v clamped to [0, 1], that of indicator-nonneg returns max(v_i, 0), for
\* every v, also out of the domain.
C3_ProxProjects ==
    /\ op = "indbox01" =>
          /\ Len(y) = Len(v0)
          /\ \A i \in DOMAIN v0 :
                /\ y[i] = RMin(RMax(v0[i], Zero), One)
                /\ RLe(Zero, y[i]) /\ RLe(y[i], One)
    /\ op = "indge0" =>
          /\ Len(y) = Len(v0)
          /\ \A i \in DOMAIN v0 :
                /\ y[i] = RMax(v0[i], Zero)
                /\ RLe(Zero, y[i])

\* indicator-box01 was applied to a vector with an entry below 0 and an entry
\* above 1
C3_Witness ==
    /\ op = "indbox01"
    /\ Len(v0) = 2
    /\ RLt(v0[1], Zero)
    /\ RLt(One, v0[2])
    /\ y = <<Zero, One>>

\* C4: with inconsistent dimensions of P, q, A, b and the term ranges, solve
\* reports an error before the first iteration, and nothing has been computed
\* by then: no preconditioning, no KKT matrix, no factorization, no x/z/u
\* update, no result.
C4_FailsFast ==
    ~Consistent(data) =>
        /\ iter_num = 0
        /\ quad_kkt = NoMatrix /\ quad_kkt_reg = NoMatrix /\ F = NoMatrix
        /\ equil_scaling \in {<<>>, Ones(data.P.n)}
        /\ pc # "done"

C6_ExitOnlyOnTenthOrCap ==
    pc = "done" =>
        \/ (iter_num % 10 = 0 /\ converged)
        \/ iter_num = self.max_iter

\* C6, the penalty: rho, u's rescaling and the KKT matrices change only at
\* the end of an iteration whose count is a multiple of 10 and in which the
\* loop did not end.
C6_RhoOnlyOnTenth ==
    [][(pc \in {"loop", "hyst"}
        /\ (rho' # rho \/ quad_kkt' # quad_kkt \/ quad_kkt_reg' # quad_kkt_reg
            \/ F' # F \/ (iter_num' = iter_num /\ uk1' # uk1)))
        => (iter_num % 10 = 0 /\ iter_num > 0 /\ pc = "hyst" /\ pc' = "loop")]_vars

\* C6: the stopping test and the adaptive-penalty step run only on every 10th
\* iteration.
C6_EveryTenth == []C6_ExitOnlyOnTenthOrCap /\ C6_RhoOnlyOnTenth

\* the loop ended on the stopping test in iteration 20, after a penalty update
C6_Witness ==
    /\ pc = "done"
    /\ converged
    /\ iter_num = 2 * CheckEvery
    /\ iter_num # self.max_iter
    /\ rho # self.rho

\* C7, the matrices: at every x update the top-left diagonal of quad_kkt and
\* of the factorized matrix is that of P plus the rho of the right-hand side,
\* with constraints (F of quad_kkt_reg) and without (F of quad_kkt).
C7_KktCarriesRho ==
    pc = "loop" =>
        /\ quad_kkt.diag = P.diag + rho
        /\ F.diag = P.diag + rho
        /\ IF has_constr
           THEN F = quad_kkt_reg /\ F.reg = "neg" /\ quad_kkt.reg = "zero"
           ELSE F = quad_kkt /\ F.reg = "none"

\* C7, the step: when rho'/rho > 5 or rho/rho' > 5, rho becomes rho', u is
\* multiplied by rho/rho' (rho * u is kept), and the diagonal of the KKT
\* matrices and of the factorized matrix moves from rho to rho'.
C7_UpdateStep ==
    [][(pc = "hyst" /\ (new_rho_candidate > 5 * rho \/ rho > 5 * new_rho_candidate))
        => /\ rho' = new_rho_candidate
           /\ pc' = "loop"
           /\ Len(uk') = Len(uk1)
           /\ \A i \in DOMAIN uk1 :
                 /\ uk'[i][2] > 0
                 /\ uk'[i][1] * rho' * uk1[i][2] = uk1[i][1] * rho * uk'[i][2]
           /\ quad_kkt'.diag = quad_kkt.diag + (rho' - rho)
           /\ F'.diag = F.diag + (rho' - rho)
           /\ F'.n = F.n /\ F'.reg = F.reg]_vars

\* C7: an applied penalty update rescales u, sets rho and updates the KKT
\* matrix and the factorization together, so every x update solves with the
\* rho of its right-hand side.
C7_UpdateKeepsKkt == []C7_KktCarriesRho /\ C7_UpdateStep

\* an x update is due after an applied penalty update, with constraints and a
\* nonzero u
C7_Witness ==
    /\ pc = "loop"
    /\ has_constr
    /\ iter_num = CheckEvery
    /\ rho # self.rho
    /\ ~IsZeroVec(uk)
    /\ F.diag = P.diag + rho

\* C8: from a positive initial rho, rho is positive in every state of solve;
\* a candidate that is zero (r_prim or rho * u is zero) is replaced by rho.
C8_RhoPositive ==
    /\ pc # "start" => rho > 0
    /\ pc = "hyst" => new_rho_candidate > 0
    /\ (pc = "hyst" /\ (r_prim = Zero \/ IsZeroVec(uk1)))
          => new_rho_candidate = rho

\* a 10th iteration with a zero primal residual has ended, rho retained
C8_Witness ==
    /\ pc = "loop"
    /\ iter_num = CheckEvery
    /\ r_prim = Zero
    /\ new_rho_candidate = rho
    /\ rho = self.rho

\* whether coordinate i (from 1) lies in the range of an abs term of g_list
InAbsRange(g_list, i) ==
    \E k \in DOMAIN g_list :
        /\ g_list[k].g = "abs"
        /\ g_list[k].range[1] < i
        /\ i <= g_list[k].range[2]

\* C9: get_subdifferential returns, in the range of an abs term, sign(x[i])
\* when x[i] != 0 and clip(-target[i], -1, 1) when x[i] == 0, and 0 at every
\* other coordinate.
C9_Subdifferential ==
    sd_pc = "done" =>
        /\ Len(sd_out) = Len(sd_x)
        /\ \A i \in DOMAIN sd_x :
              IF InAbsRange(sd_g, i)
              THEN /\ RLt(Zero, sd_x[i]) => sd_out[i] = One
                   /\ RLt(sd_x[i], Zero) => sd_out[i] = RNeg(One)
                   /\ sd_x[i] = Zero =>
                         sd_out[i] = RMax(RNeg(One), RMin(One, RNeg(sd_target[i])))
              ELSE sd_out[i] = Zero

\* an abs term over a zero coordinate whose target is beyond 1, next to a
\* coordinate of another term
C9_Witness ==
    /\ sd_pc = "done"
    /\ Len(sd_g) = 2
    /\ sd_g[2].g = "abs"
    /\ sd_x[2] = Zero
    /\ RLt(One, sd_target[2])
    /\ sd_out[2] = RNeg(One)
    /\ sd_x[1] # Zero
    /\ sd_out[1] = Zero

\* C10, as claimed: whenever A has a row, both (n+m) x (n+m) KKT matrices are
\* built and the x update solves that system; the reduced system of size n is
\* used only when A has no row.
C10_FullSystemWheneverRows ==
    (Running /\ data.A.rows > 0) =>
        /\ quad_kkt.n = dim + data.A.rows
        /\ quad_kkt_reg.n = dim + data.A.rows
        /\ F.n = dim + data.A.rows

\* C10, amended, the systems: when A stores a nonzero, the exact and the
\* regularized (n+m) x (n+m) KKT matrices are built, the regularized one is
\* factorized and every right-hand side ends with b; the reduced system of
\* size n is used only when A stores no nonzero; an x update of a consistent
\* problem does not raise.
C10_SystemByNonzeros ==
    /\ Running =>
          IF data.A.nnz # 0
          THEN /\ quad_kkt.n = data.P.n + data.A.rows
               /\ quad_kkt.reg = "zero"
               /\ quad_kkt.A = data.A
               /\ quad_kkt_reg = [quad_kkt EXCEPT !.reg = "neg"]
               /\ F = quad_kkt_reg
               /\ iter_num > 0 =>
                     /\ Len(rhs) = data.P.n + data.A.rows
                     /\ SubSeq(rhs, data.P.n + 1, Len(rhs)) = data.b
          ELSE /\ F.n = data.P.n
               /\ F.reg = "none"
               /\ F = quad_kkt
               /\ iter_num > 0 => Len(rhs) = data.P.n
    /\ Consistent(data) => pc # "error"

\* C10, amended, the right-hand side: the first n entries of the right-hand
\* side of every x update are -q + rho * (z - u).
C10_RhsTop ==
    [][(pc = "loop" /\ iter_num' = iter_num + 1 /\ pc' # "error")
        => \A i \in 1..dim :
              rhs'[i] = RAdd(RNeg(q[i]),
                             RMul(FromInt(rho), RSub(zk[i], uk[i])))]_vars

\* C10, amended: the full KKT system with right-hand side [-q + rho(z-u); b]
\* is used when A stores a nonzero, the reduced one only when it stores none.
C10_SystemAndRhs == []C10_SystemByNonzeros /\ C10_RhsTop

\* an iteration has run on the full system, its right-hand side ending with b
C10_Witness ==
    /\ pc = "loop"
    /\ data.A.nnz # 0
    /\ iter_num = 2
    /\ Len(rhs) = dim + constr_dim
    /\ constr_dim = 1
    /\ rhs[Len(rhs)] = data.b[1]

====
